---- MODULE Spec2Model ----
(***************************************************************************)
(* Model of the pricing engine calculateBestPrice of the menu application  *)
(* (src/unnamed/part_000, duplicated in src/src/lib/utils.ts).             *)
(*                                                                         *)
(* One call of calculateBestPrice is a run of the state machine: Init      *)
(* draws the three arguments, and the actions are the successive blocks of *)
(* the function body.  Every block is also an operator, so that the whole  *)
(* function is available as CalculateBestPrice(selections, items, rules).  *)
(*                                                                         *)
(* Prices are JavaScript numbers in the source; the model uses integers    *)
(* (prices in whole currency units), on which the arithmetic of the        *)
(* function (+, -, *, Math.floor of a quotient, Math.min) is exact.        *)
(***************************************************************************)
EXTENDS Integers, Sequences, FiniteSets, TLC

VARIABLES
    pc,               \* position in the body of calculateBestPrice
    selections,       \* argument: Record<string, number>
    items,            \* argument: MenuItem[]
    pricingRules,     \* argument: PricingRule[]
    categoryCounts,   \* local: Record<MenuCategory, number>
    unitaryPrices,    \* local: Record<MenuCategory, number>
    combos,           \* local: ranked { rule, savings }[]
    next,             \* position of the for-of loop in combos
    remainingCounts,  \* local: working copy of categoryCounts
    appliedCombos,    \* local/result: AppliedCombo[]
    appliedTimes,     \* history: the value of `times` of each push
    totalPrice,       \* local/result: total
    breakdown,        \* local/result: string[]
    history,          \* history: arguments and result of the calls made before
    storage,          \* localStorage: what the key "saved-menus" holds
    lastCall          \* history: the last call of a storage function

vars == <<pc, selections, items, pricingRules, categoryCounts, unitaryPrices,
          combos, next, remainingCounts, appliedCombos, appliedTimes,
          totalPrice, breakdown, history, storage, lastCall>>

(***************************************************************************)
(* Types (src/unnamed/part_000 lines 1-43)                                 *)
(***************************************************************************)
MenuCategory == {"FIT", "LOWCARB", "CALDOS"}

PricingRuleType == {"UNITARY", "QUANTITY_COMBO", "MIXED_COMBO"}

\* `Infinity`, the initial value of `times` for a mixed combo.
Infinity == 1000000

(***************************************************************************)
(* Bounds of the inputs                                                    *)
(***************************************************************************)
MaxSelQty == 2      \* largest quantity of one selection entry
MaxPrice == 1       \* largest price of a rule
MaxComboQty == 2    \* largest quantity required by a combo
MaxEarlierCalls == 2  \* calls made before the call under observation
MaxSavedMenus == 2    \* largest number of saved menus

\* Categories used by the drawn inputs; CALDOS stays at 0 units, price 0.
InputCategories == {"FIT", "LOWCARB"}

ItemIds == {"a", "b"}

(***************************************************************************)
(* Helpers on sequences                                                    *)
(***************************************************************************)
RemoveAt(s, i) == [k \in 1..(Len(s) - 1) |-> IF k < i THEN s[k] ELSE s[k + 1]]

MinOf(a, b) == IF a <= b THEN a ELSE b

(***************************************************************************)
(* Category counts (lines 231-243)                                         *)
(***************************************************************************)
\* new Map(items.map(item => [item.id, item])): a later item with the same
\* id replaces an earlier one.  Result: the set of known ids and, for a known
\* id, its category.
ItemKnown(its, id) == \E k \in 1..Len(its) : its[k].id = id

ItemCategory(its, id) ==
    LET last == CHOOSE k \in 1..Len(its) :
                    /\ its[k].id = id
                    /\ \A j \in (k + 1)..Len(its) : its[j].id # id
    IN its[last].category

\* Variant: an entry whose id is unknown is counted in the category FIT.
RECURSIVE SumQuantitiesDefaultFit(_, _, _, _)
SumQuantitiesDefaultFit(sel, its, cat, ids) ==
    IF ids = {} THEN 0
    ELSE LET id == CHOOSE x \in ids : TRUE
         IN (IF ItemKnown(its, id)
             THEN (IF ItemCategory(its, id) = cat THEN sel[id] ELSE 0)
             ELSE (IF cat = "FIT" THEN sel[id] ELSE 0))
            + SumQuantitiesDefaultFit(sel, its, cat, ids \ {id})

RECURSIVE SumQuantities(_, _, _, _)
SumQuantities(sel, its, cat, ids) ==
    IF ids = {} THEN 0
    ELSE LET id == CHOOSE x \in ids : TRUE
         IN (IF ItemKnown(its, id) /\ ItemCategory(its, id) = cat
             THEN sel[id] ELSE 0)
            + SumQuantities(sel, its, cat, ids \ {id})

\* if (item) categoryCounts[item.category] += quantity
CategoryCounts(sel, its) ==
    [cat \in MenuCategory |-> SumQuantities(sel, its, cat, DOMAIN sel)]

(***************************************************************************)
(* Unit prices (lines 246-255)                                             *)
(***************************************************************************)
\* Variant: a unit rule does not replace a price that is already set.
RECURSIVE UnitaryPricesFirstWins(_, _)
UnitaryPricesFirstWins(rules, prices) ==
    IF rules = <<>> THEN prices
    ELSE LET rule == Head(rules)
         IN UnitaryPricesFirstWins(
                Tail(rules),
                IF rule.type = "UNITARY" /\ prices[rule.category] = 0
                THEN [prices EXCEPT ![rule.category] = rule.price]
                ELSE prices)

RECURSIVE UnitaryPricesFrom(_, _)
UnitaryPricesFrom(rules, prices) ==
    IF rules = <<>> THEN prices
    ELSE LET rule == Head(rules)
         IN UnitaryPricesFrom(
                Tail(rules),
                IF rule.type = "UNITARY"
                THEN [prices EXCEPT ![rule.category] = rule.price]
                ELSE prices)

\* Variant: a category without unit rule gets the price 1.
UnitaryPricesDefaultOne(rules) ==
    UnitaryPricesFrom(rules, [cat \in MenuCategory |-> 1])

UnitaryPrices(rules) == UnitaryPricesFrom(rules, [cat \in MenuCategory |-> 0])

(***************************************************************************)
(* Combo ranking (lines 263-282)                                           *)
(***************************************************************************)
RECURSIVE WouldPayMix(_, _)
WouldPayMix(mixQuantities, prices) ==
    IF mixQuantities = <<>> THEN 0
    ELSE prices[Head(mixQuantities).category] * Head(mixQuantities).quantity
         + WouldPayMix(Tail(mixQuantities), prices)

\* The body of the .map callback: the savings of one application of the rule.
\* quantity 0 stands for an absent (or zero) quantity, which is falsy.
ComboSavings(rule, prices) ==
    IF rule.type = "QUANTITY_COMBO" /\ rule.quantity # 0
    THEN prices[rule.category] * rule.quantity - rule.price
    ELSE IF rule.type = "MIXED_COMBO" /\ rule.hasMix
         THEN WouldPayMix(rule.mixQuantities, prices) - rule.price
         ELSE 0

IsCombo(rule) == rule.type # "UNITARY"

\* Variant: combos that merely match the unit price are kept too.
KeepComboNonNegative(c) == c.savings >= 0

KeepCombo(c) == c.savings > 0

\* Variant: an insertion that puts an element before the elements it ties with.
InsertBeforeTies(sorted, c) ==
    LET before == {k \in 1..Len(sorted) : sorted[k].savings > c.savings}
        n == Cardinality(before)
    IN SubSeq(sorted, 1, n) \o <<c>> \o SubSeq(sorted, n + 1, Len(sorted))

\* Variant: no sort, the combos stay in the order of the rule list.
InsertAtEnd(sorted, c) == Append(sorted, c)

\* Array.prototype.sort with (a, b) => b.savings - a.savings: descending by
\* savings, stable (elements that compare equal keep their relative order).
InsertBySavings(sorted, c) ==
    LET before == {k \in 1..Len(sorted) : sorted[k].savings >= c.savings}
        n == Cardinality(before)
    IN SubSeq(sorted, 1, n) \o <<c>> \o SubSeq(sorted, n + 1, Len(sorted))

RECURSIVE SortBySavings(_)
SortBySavings(s) ==
    IF s = <<>> THEN <<>>
    ELSE InsertBySavings(SortBySavings(SubSeq(s, 1, Len(s) - 1)), s[Len(s)])

RankCombos(rules, prices) ==
    LET nonUnitary == SelectSeq(rules, IsCombo)
        mapped == [k \in 1..Len(nonUnitary) |->
                      [rule |-> nonUnitary[k],
                       savings |-> ComboSavings(nonUnitary[k], prices)]]
    IN SortBySavings(SelectSeq(mapped, KeepCombo))

(***************************************************************************)
(* One iteration of the for-of loop (lines 285-315)                        *)
(***************************************************************************)
\* Variant: Math.ceil instead of Math.floor.
CeilDiv(a, b) == (a + b - 1) \div b

\* Math.floor(a / b) for b > 0 (\div rounds towards minus infinity).
FloorDiv(a, b) == a \div b

\* Variant: only the first requirement decides the number of applications.
MixTimesFirst(mixQuantities, remaining, times) ==
    IF mixQuantities = <<>> THEN times
    ELSE MinOf(times, FloorDiv(remaining[Head(mixQuantities).category],
                               Head(mixQuantities).quantity))

RECURSIVE MixTimes(_, _, _)
MixTimes(mixQuantities, remaining, times) ==
    IF mixQuantities = <<>> THEN times
    ELSE MixTimes(Tail(mixQuantities), remaining,
                  MinOf(times, FloorDiv(remaining[Head(mixQuantities).category],
                                        Head(mixQuantities).quantity)))

MixCanApply(mixQuantities, remaining) ==
    \A k \in 1..Len(mixQuantities) :
        FloorDiv(remaining[mixQuantities[k].category], mixQuantities[k].quantity) # 0

RECURSIVE MixConsume(_, _, _)
MixConsume(mixQuantities, remaining, times) ==
    IF mixQuantities = <<>> THEN remaining
    ELSE LET mix == Head(mixQuantities)
         IN MixConsume(Tail(mixQuantities),
                       [remaining EXCEPT ![mix.category] = @ - mix.quantity * times],
                       times)

\* Variant: a combo is applied once at most.
ComboTimesAtMostOnce(c, remaining) ==
    IF c.rule.type = "QUANTITY_COMBO" /\ c.rule.quantity # 0
    THEN MinOf(1, FloorDiv(remaining[c.rule.category], c.rule.quantity))
    ELSE IF c.rule.type = "MIXED_COMBO" /\ c.rule.hasMix
         THEN MixTimes(c.rule.mixQuantities, remaining, 1)
         ELSE 0

\* The number of applications `times` the iteration computes for combo c.
ComboTimes(c, remaining) ==
    IF c.rule.type = "QUANTITY_COMBO" /\ c.rule.quantity # 0
    THEN FloorDiv(remaining[c.rule.category], c.rule.quantity)
    ELSE IF c.rule.type = "MIXED_COMBO" /\ c.rule.hasMix
         THEN MixTimes(c.rule.mixQuantities, remaining, Infinity)
         ELSE 0

\* Variant: a quantity combo is pushed without the test available > 0.
ComboAppliesUnguarded(c, remaining) ==
    IF c.rule.type = "QUANTITY_COMBO" /\ c.rule.quantity # 0
    THEN TRUE
    ELSE IF c.rule.type = "MIXED_COMBO" /\ c.rule.hasMix
         THEN MixCanApply(c.rule.mixQuantities, remaining)
              /\ ComboTimes(c, remaining) > 0
         ELSE FALSE

\* Whether the iteration pushes an AppliedCombo.
ComboApplies(c, remaining) ==
    IF c.rule.type = "QUANTITY_COMBO" /\ c.rule.quantity # 0
    THEN ComboTimes(c, remaining) > 0
    ELSE IF c.rule.type = "MIXED_COMBO" /\ c.rule.hasMix
         THEN MixCanApply(c.rule.mixQuantities, remaining)
              /\ ComboTimes(c, remaining) > 0
         ELSE FALSE

\* Variant: the savings of one application are recorded, whatever `times` is.
AppliedEntryOnce(c, times) == [rule |-> c.rule, savings |-> c.savings]

\* appliedCombos.push({ rule, savings: savings * times })
AppliedEntry(c, times) == [rule |-> c.rule, savings |-> c.savings * times]

\* Variant: the applied units are not taken off the remaining counts.
ConsumeNothing(c, remaining, times) == remaining

ConsumeUnits(c, remaining, times) ==
    IF c.rule.type = "QUANTITY_COMBO"
    THEN [remaining EXCEPT ![c.rule.category] = @ - c.rule.quantity * times]
    ELSE MixConsume(c.rule.mixQuantities, remaining, times)

\* The state of the loop: remaining counts, applied combos, their times, total.
ApplyStep(c, st) ==
    IF ComboApplies(c, st.remaining)
    THEN LET times == ComboTimes(c, st.remaining)
         IN [remaining |-> ConsumeUnits(c, st.remaining, times),
             applied |-> Append(st.applied, AppliedEntry(c, times)),
             times |-> Append(st.times, times),
             total |-> st.total + c.rule.price * times]
    ELSE st

RECURSIVE ApplyAll(_, _)
ApplyAll(cs, st) ==
    IF cs = <<>> THEN st ELSE ApplyAll(Tail(cs), ApplyStep(Head(cs), st))

(***************************************************************************)
(* Remainder at unit price (lines 318-322)                                 *)
(***************************************************************************)
\* Variant: one unit is charged however many remain.
UnitChargeOnce(prices, cat, count) == IF count > 0 THEN prices[cat] ELSE 0

\* Variant: the remainder is charged without the test count > 0.
UnitChargeUnguarded(prices, cat, count) == prices[cat] * count

UnitCharge(prices, cat, count) == IF count > 0 THEN prices[cat] * count ELSE 0

RemainderPrice(remaining, prices) ==
    UnitCharge(prices, "FIT", remaining["FIT"])
    + UnitCharge(prices, "LOWCARB", remaining["LOWCARB"])
    + UnitCharge(prices, "CALDOS", remaining["CALDOS"])

(***************************************************************************)
(* Breakdown (lines 324-341)                                               *)
(***************************************************************************)
\* Number.prototype.toFixed(2) of an integer amount: sign, digits, ".00".
ToFixed2(n) == ToString(n) \o ".00"

RECURSIVE JoinMix(_)
JoinMix(mixQuantities) ==
    IF mixQuantities = <<>> THEN ""
    ELSE LET m == Head(mixQuantities)
             one == ToString(m.quantity) \o "x " \o m.category
         IN IF Tail(mixQuantities) = <<>> THEN one
            ELSE one \o " + " \o JoinMix(Tail(mixQuantities))

\* The lines pushed for one applied combo (none if neither branch is taken).
BreakdownLines(entry) ==
    IF entry.rule.type = "QUANTITY_COMBO"
    THEN << "- " \o ToString(entry.rule.quantity) \o "x " \o entry.rule.category
            \o ": R$ " \o ToFixed2(entry.rule.price)
            \o " (economia: R$ " \o ToFixed2(entry.savings) \o ")" >>
    ELSE IF entry.rule.type = "MIXED_COMBO" /\ entry.rule.hasMix
         THEN << "- Combo " \o JoinMix(entry.rule.mixQuantities)
                 \o ": R$ " \o ToFixed2(entry.rule.price)
                 \o " (economia: R$ " \o ToFixed2(entry.savings) \o ")" >>
         ELSE <<>>

RECURSIVE ComboLines(_)
ComboLines(applied) ==
    IF applied = <<>> THEN <<>>
    ELSE BreakdownLines(Head(applied)) \o ComboLines(Tail(applied))

\* Variant: the header line is pushed whether or not a combo was applied.
BreakdownAlwaysHeader(applied) == <<"Combos aplicados:">> \o ComboLines(applied)

\* Variant: the header line is not pushed.
BreakdownNoHeader(applied) ==
    IF Len(applied) > 0 THEN ComboLines(applied) ELSE <<>>

Breakdown(applied) ==
    IF Len(applied) > 0 THEN <<"Combos aplicados:">> \o ComboLines(applied)
    ELSE <<>>

(***************************************************************************)
(* The whole function (lines 225-344)                                      *)
(***************************************************************************)
CalculateBestPrice(sel, its, rules) ==
    LET counts == CategoryCounts(sel, its)
        prices == UnitaryPrices(rules)
        final == ApplyAll(RankCombos(rules, prices),
                          [remaining |-> counts, applied |-> <<>>,
                           times |-> <<>>, total |-> 0])
    IN [total |-> final.total + RemainderPrice(final.remaining, prices),
        appliedCombos |-> final.applied,
        breakdown |-> Breakdown(final.applied)]

(***************************************************************************)
(* The copy of the function in src/lib/utils.ts (lines 156-282)            *)
(***************************************************************************)
\* lines 188-194: the price without combos, computed and never read.
BasePrice(counts, prices) ==
    prices["FIT"] * counts["FIT"] + prices["LOWCARB"] * counts["LOWCARB"]
    + prices["CALDOS"] * counts["CALDOS"]

\* Variant: the total starts at the base price.
LibCalculateBestPriceFromBase(sel, its, rules) ==
    LET counts == CategoryCounts(sel, its)
        prices == UnitaryPrices(rules)
        basePrice == BasePrice(counts, prices)
        final == ApplyAll(RankCombos(rules, prices),
                          [remaining |-> counts, applied |-> <<>>,
                           times |-> <<>>, total |-> basePrice])
    IN [total |-> final.total + RemainderPrice(final.remaining, prices),
        appliedCombos |-> final.applied,
        breakdown |-> Breakdown(final.applied)]

\* The same statements as the other copy, in the same order, with the base
\* price computed between the unit prices and the combos; the total starts
\* at 0.
LibCalculateBestPrice(sel, its, rules) ==
    LET counts == CategoryCounts(sel, its)
        prices == UnitaryPrices(rules)
        basePrice == BasePrice(counts, prices)
        final == ApplyAll(RankCombos(rules, prices),
                          [remaining |-> counts, applied |-> <<>>,
                           times |-> <<>>, total |-> 0])
    IN [total |-> final.total + RemainderPrice(final.remaining, prices),
        appliedCombos |-> final.applied,
        breakdown |-> Breakdown(final.applied)]

(***************************************************************************)
(* The inputs drawn by Init                                                *)
(***************************************************************************)
Item(id, cat) == [id |-> id, category |-> cat]

UnitaryRule(cat, price) ==
    [id |-> 0, category |-> cat, type |-> "UNITARY", price |-> price,
     quantity |-> 0, hasMix |-> FALSE, mixQuantities |-> <<>>]

QuantityCombo(cat, quantity, price) ==
    [id |-> 0, category |-> cat, type |-> "QUANTITY_COMBO", price |-> price,
     quantity |-> quantity, hasMix |-> FALSE, mixQuantities |-> <<>>]

MixedCombo(mixQuantities, price) ==
    [id |-> 0, category |-> "FIT", type |-> "MIXED_COMBO", price |-> price,
     quantity |-> 0, hasMix |-> TRUE, mixQuantities |-> mixQuantities]

Mix(cat, quantity) == [category |-> cat, quantity |-> quantity]

\* A mixed combo without its optional mixQuantities.
MixedComboWithoutMix(price) ==
    [id |-> 0, category |-> "FIT", type |-> "MIXED_COMBO", price |-> price,
     quantity |-> 0, hasMix |-> FALSE, mixQuantities |-> <<>>]

\* Rule ids are unique: the position of the rule in the list.
WithIds(rules) == [k \in 1..Len(rules) |-> [rules[k] EXCEPT !.id = k]]

\* The unit rule of a category, none when the price is 0.
UnitRuleList(cat, price) ==
    IF price = 0 THEN <<>> ELSE <<UnitaryRule(cat, price)>>

QuantityCombos ==
    {QuantityCombo(cat, q, p) :
        cat \in InputCategories, q \in 1..MaxComboQty, p \in 0..MaxPrice}

MixedCombos ==
    {MixedCombo(<<Mix(c1, 1), Mix(c2, 1)>>, p) :
        c1 \in InputCategories, c2 \in InputCategories, p \in 0..MaxPrice}

ComboRules == QuantityCombos \cup MixedCombos

ComboLists ==
    {<<>>} \cup {<<c>> : c \in ComboRules}
           \cup {<<c, d>> : c \in ComboRules, d \in ComboRules}

UnitConfigs ==
    {UnitRuleList("FIT", pf) \o UnitRuleList("LOWCARB", pl) :
        pf \in 0..MaxPrice, pl \in 0..MaxPrice}

\* Rule lists of the pricing inputs: unit rules, then up to two combos.
RuleLists == {WithIds(us \o cs) : us \in UnitConfigs, cs \in ComboLists}

\* Rule lists of the selection inputs: unit rules, at most one quantity combo.
ShortRuleLists ==
    {WithIds(us \o cs) :
        us \in UnitConfigs,
        cs \in {<<>>} \cup {<<c>> : c \in QuantityCombos}}

Catalog == <<Item("a", "FIT"), Item("b", "LOWCARB")>>

\* Item lists: empty, one item, two items, two items with the same id.
ItemLists ==
    {<<>>} \cup {<<Item("a", c)>> : c \in InputCategories}
           \cup {<<Item("a", c), Item(id, d)>> :
                    c \in InputCategories, d \in InputCategories, id \in ItemIds}

\* Every id selected, with a quantity the menu page can produce.
Selections == [ItemIds -> 0..MaxSelQty]

\* Any subset of the ids selected, with zero and negative quantities too.
PartialSelections ==
    UNION {[ids -> (-1)..MaxSelQty] : ids \in SUBSET ItemIds}

\* Combos that lack their optional quantity or mix list.
IncompleteCombos ==
    {QuantityCombo(cat, 0, p) : cat \in InputCategories, p \in 0..MaxPrice}
        \cup {MixedComboWithoutMix(p) : p \in 0..MaxPrice}

\* Rule lists with an incomplete combo, alone or before a quantity combo.
IncompleteRuleLists ==
    {WithIds(us \o cs) :
        us \in UnitConfigs,
        cs \in {<<x>> : x \in IncompleteCombos}
                \cup {<<x, c>> : x \in IncompleteCombos, c \in QuantityCombos}}

\* Rule lists with two unit rules for one category, around at most one
\* quantity combo of that category.
DuplicateUnitRuleLists ==
    {WithIds(<<UnitaryRule(cat, p1)>> \o cs \o <<UnitaryRule(cat, p2)>>) :
        cat \in InputCategories, p1 \in 0..MaxPrice, p2 \in 0..MaxPrice,
        cs \in {<<>>} \cup {<<QuantityCombo("FIT", q, p)>> :
                                q \in 1..MaxComboQty, p \in 0..MaxPrice}}

\* Rule lists with a unit price for FIT, with or without one for LOWCARB,
\* and one mixed combo of two requirements with quantities up to MaxComboQty.
MixRuleLists ==
    {WithIds(<<UnitaryRule("FIT", MaxPrice)>> \o ul
             \o <<MixedCombo(<<Mix(c1, q1), Mix(c2, q2)>>, p)>>) :
        ul \in {<<>>} \cup {<<UnitaryRule("LOWCARB", pl)>> : pl \in 1..MaxPrice},
        c1 \in InputCategories, c2 \in InputCategories,
        q1 \in 1..MaxComboQty, q2 \in 1..MaxComboQty, p \in 0..MaxPrice}

\* Pricing inputs: a fixed catalog, every rule list.
PricingInputs ==
    /\ items = Catalog
    /\ selections \in Selections
    /\ pricingRules \in RuleLists

\* Selection inputs: every item list and selection map, short rule lists.
SelectionInputs ==
    /\ items \in ItemLists
    /\ selections \in PartialSelections
    /\ pricingRules \in ShortRuleLists

\* Inputs with combos that lack their quantity or mix list.
IncompleteComboInputs ==
    /\ items = Catalog
    /\ selections \in Selections
    /\ pricingRules \in IncompleteRuleLists

\* Inputs with two unit rules for the same category.
DuplicateUnitInputs ==
    /\ items = <<Item("a", "FIT"), Item("b", "FIT")>>
    /\ selections \in Selections
    /\ pricingRules \in DuplicateUnitRuleLists

\* Inputs with one mixed combo of larger quantities.
MixInputs ==
    /\ items = Catalog
    /\ selections \in Selections
    /\ pricingRules \in MixRuleLists

\* The scenario "quantity combo with remainder": 13 units of one category,
\* unit price 10, a combo of 10 units for 90.
ExampleInputs ==
    /\ items = <<Item("a", "FIT")>>
    /\ selections = [id \in {"a"} |-> 13]
    /\ pricingRules = WithIds(<<UnitaryRule("FIT", 10),
                                QuantityCombo("FIT", 10, 90)>>)

(***************************************************************************)
(* The state machine of one call                                           *)
(***************************************************************************)
NoCounts == [cat \in MenuCategory |-> 0]

\* localStorage without the key "saved-menus": getItem returns null.
EmptyStorage == [present |-> FALSE, menus |-> <<>>]

\* No storage function has been called.
NoCall ==
    [op |-> "none", id |-> "", name |-> "", items |-> <<>>,
     pricingRules |-> <<>>, threw |-> FALSE, returned |-> <<>>, removed |-> 0]

Init ==
    /\ pc = "start"
    /\ \/ PricingInputs
       \/ SelectionInputs
       \/ IncompleteComboInputs
       \/ DuplicateUnitInputs
       \/ MixInputs
       \/ ExampleInputs
    /\ categoryCounts = NoCounts
    /\ unitaryPrices = NoCounts
    /\ combos = <<>>
    /\ next = 1
    /\ remainingCounts = NoCounts
    /\ appliedCombos = <<>>
    /\ appliedTimes = <<>>
    /\ totalPrice = 0
    /\ breakdown = <<>>
    /\ history = <<>>
    /\ storage = EmptyStorage
    /\ lastCall = NoCall

\* lines 231-255: category counts and unit prices
Aggregate ==
    /\ pc = "start"
    /\ categoryCounts' = CategoryCounts(selections, items)
    /\ unitaryPrices' = UnitaryPrices(pricingRules)
    /\ pc' = "rank"
    /\ UNCHANGED <<storage, lastCall, history, selections, items,
                   pricingRules, combos, next, remainingCounts,
                   appliedCombos, appliedTimes, totalPrice, breakdown>>

\* Variant: the list of applied combos and the total are not declared anew.
RankKeepingTotals ==
    /\ pc = "rank"
    /\ remainingCounts' = categoryCounts
    /\ combos' = RankCombos(pricingRules, unitaryPrices)
    /\ next' = 1
    /\ pc' = "apply"
    /\ UNCHANGED <<storage, lastCall, history, selections, items,
                   pricingRules, categoryCounts, unitaryPrices, breakdown,
                   appliedCombos, appliedTimes, totalPrice>>

\* lines 258-282: working copy, ranked combos
Rank ==
    /\ pc = "rank"
    /\ appliedCombos' = <<>>
    /\ appliedTimes' = <<>>
    /\ remainingCounts' = categoryCounts
    /\ totalPrice' = 0
    /\ combos' = RankCombos(pricingRules, unitaryPrices)
    /\ next' = 1
    /\ pc' = "apply"
    /\ UNCHANGED <<storage, lastCall, history, selections, items,
                   pricingRules, categoryCounts, unitaryPrices, breakdown>>

\* Variant: the loop does not move on to the next combo.
ApplyComboStuck ==
    /\ pc = "apply"
    /\ next <= Len(combos)
    /\ LET st == ApplyStep(combos[next],
                           [remaining |-> remainingCounts,
                            applied |-> appliedCombos,
                            times |-> appliedTimes,
                            total |-> totalPrice])
       IN /\ remainingCounts' = st.remaining
          /\ appliedCombos' = st.applied
          /\ appliedTimes' = st.times
          /\ totalPrice' = st.total
    /\ UNCHANGED <<storage, lastCall, history, pc, selections, items,
                   pricingRules, categoryCounts, unitaryPrices, combos, next,
                   breakdown>>

\* Variant: remainingCounts is categoryCounts itself, not a copy of it.
ApplyComboAliased ==
    /\ pc = "apply"
    /\ next <= Len(combos)
    /\ LET st == ApplyStep(combos[next],
                           [remaining |-> remainingCounts,
                            applied |-> appliedCombos,
                            times |-> appliedTimes,
                            total |-> totalPrice])
       IN /\ remainingCounts' = st.remaining
          /\ categoryCounts' = st.remaining
          /\ appliedCombos' = st.applied
          /\ appliedTimes' = st.times
          /\ totalPrice' = st.total
    /\ next' = next + 1
    /\ UNCHANGED <<storage, lastCall, history, pc, selections, items,
                   pricingRules, unitaryPrices, combos, breakdown>>

\* Variant: after an application the loop starts again at the best combo.
ApplyComboRestart ==
    /\ pc = "apply"
    /\ next <= Len(combos)
    /\ LET st == ApplyStep(combos[next],
                           [remaining |-> remainingCounts,
                            applied |-> appliedCombos,
                            times |-> appliedTimes,
                            total |-> totalPrice])
       IN /\ remainingCounts' = st.remaining
          /\ appliedCombos' = st.applied
          /\ appliedTimes' = st.times
          /\ totalPrice' = st.total
          /\ next' = IF st.applied # appliedCombos THEN 1 ELSE next + 1
    /\ UNCHANGED <<storage, lastCall, history, pc, selections, items,
                   pricingRules, categoryCounts, unitaryPrices, combos,
                   breakdown>>

\* lines 285-315: one iteration of the loop over combos
ApplyCombo ==
    /\ pc = "apply"
    /\ next <= Len(combos)
    /\ LET st == ApplyStep(combos[next],
                           [remaining |-> remainingCounts,
                            applied |-> appliedCombos,
                            times |-> appliedTimes,
                            total |-> totalPrice])
       IN /\ remainingCounts' = st.remaining
          /\ appliedCombos' = st.applied
          /\ appliedTimes' = st.times
          /\ totalPrice' = st.total
    /\ next' = next + 1
    /\ UNCHANGED <<storage, lastCall, history, pc, selections, items,
                   pricingRules, categoryCounts, unitaryPrices, combos,
                   breakdown>>

\* lines 318-322: the loop is over, the remainder is charged at unit price
PriceRemainder ==
    /\ pc = "apply"
    /\ next > Len(combos)
    /\ totalPrice' = totalPrice + RemainderPrice(remainingCounts, unitaryPrices)
    /\ pc' = "breakdown"
    /\ UNCHANGED <<storage, lastCall, history, selections, items,
                   pricingRules, categoryCounts, unitaryPrices, combos, next,
                   remainingCounts, appliedCombos, appliedTimes, breakdown>>

\* lines 324-343: breakdown and return
BuildBreakdown ==
    /\ pc = "breakdown"
    /\ breakdown' = Breakdown(appliedCombos)
    /\ pc' = "done"
    /\ UNCHANGED <<storage, lastCall, history, selections, items,
                   pricingRules, categoryCounts, unitaryPrices, combos, next,
                   remainingCounts, appliedCombos, appliedTimes, totalPrice>>

Next == Aggregate \/ Rank \/ ApplyCombo \/ PriceRemainder \/ BuildBreakdown

Spec == Init /\ [][Next]_vars

\* The value returned by the call, once pc = "done".
Result ==
    [total |-> totalPrice, appliedCombos |-> appliedCombos,
     breakdown |-> breakdown]

\* Termination: the body runs to its end, no step of it waits for anything.
\* The calls start from every input family; the family of all rule lists is
\* taken with the largest selection, which makes every loop as long as the
\* rule list allows.
FairInit ==
    /\ Init
    /\ \/ PricingInputs /\ selections = [id \in ItemIds |-> MaxSelQty]
       \/ SelectionInputs
       \/ IncompleteComboInputs
       \/ DuplicateUnitInputs
       \/ MixInputs
       \/ ExampleInputs

FairSpec == FairInit /\ [][Next]_vars /\ WF_vars(Next)

(***************************************************************************)
(* Successive calls                                                        *)
(***************************************************************************)
\* Arguments of the successive calls: one item of each category, FIT units
\* only, the unit price of FIT and at most one quantity combo at price 0.
CallRuleLists ==
    {WithIds(<<UnitaryRule("FIT", MaxPrice)>> \o cs) :
        cs \in {<<>>} \cup {<<QuantityCombo("FIT", q, 0)>> : q \in 1..MaxComboQty}}

CallSelections == {[id \in ItemIds |-> IF id = "a" THEN n ELSE 0] : n \in 0..MaxSelQty}

InitCalls ==
    /\ pc = "start"
    /\ items = Catalog
    /\ selections \in CallSelections
    /\ pricingRules \in CallRuleLists
    /\ categoryCounts = NoCounts
    /\ unitaryPrices = NoCounts
    /\ combos = <<>>
    /\ next = 1
    /\ remainingCounts = NoCounts
    /\ appliedCombos = <<>>
    /\ appliedTimes = <<>>
    /\ totalPrice = 0
    /\ breakdown = <<>>
    /\ history = <<>>
    /\ storage = EmptyStorage
    /\ lastCall = NoCall

\* The call has returned and the caller calls again.  The function keeps
\* nothing between calls: its variables are locals, declared anew by the
\* blocks of the next call, so what they hold here is of no consequence and
\* the model leaves it in place.
NewCall ==
    /\ pc = "done"
    /\ Len(history) < MaxEarlierCalls
    /\ history' = Append(history,
                         [selections |-> selections, items |-> items,
                          pricingRules |-> pricingRules, result |-> Result])
    /\ items' = Catalog
    /\ selections' \in CallSelections
    /\ pricingRules' \in CallRuleLists
    /\ pc' = "start"
    /\ UNCHANGED <<categoryCounts, unitaryPrices, combos, next,
                   remainingCounts, appliedCombos, appliedTimes, totalPrice,
                   breakdown, storage, lastCall>>

NextCalls == Next \/ NewCall

SpecCalls == InitCalls /\ [][NextCalls]_vars

(***************************************************************************)
(* The menu page (src/app/page.tsx): the selection map and its handlers    *)
(***************************************************************************)
\* A JavaScript number handed to updateQuantity: a multiple of one half, or
\* one of the three non-finite values.
Finite(halves) == [kind |-> "finite", halves |-> halves]

NonFinite == {[kind |-> k, halves |-> 0] : k \in {"NaN", "Infinity", "-Infinity"}}

Quantities == {Finite(h) : h \in (-2)..(2 * MaxSelQty + 1)} \cup NonFinite

\* Number.isFinite(quantity)
IsFinite(quantity) == quantity.kind = "finite"

\* quantity <= 0, which is false for NaN
AtMostZero(quantity) ==
    \/ quantity.kind = "finite" /\ quantity.halves <= 0
    \/ quantity.kind = "-Infinity"

\* Math.floor(quantity) of a finite quantity
Floor(quantity) == quantity.halves \div 2

\* { ...current, [itemId]: quantity }
WithEntry(current, itemId, quantity) ==
    [id \in DOMAIN current \cup {itemId} |->
        IF id = itemId THEN quantity ELSE current[id]]

\* const updated = { ...current }; delete updated[itemId]
WithoutEntry(current, itemId) ==
    [id \in DOMAIN current \ {itemId} |-> current[id]]

\* current[itemId] ?? 0
QuantityOf(current, itemId) ==
    IF itemId \in DOMAIN current THEN current[itemId] ELSE 0

\* lines 149-159, the updater handed to setSelections
Toggled(current, itemId) ==
    IF QuantityOf(current, itemId) = 0
    THEN WithEntry(current, itemId, 1)
    ELSE WithoutEntry(current, itemId)

\* lines 161-170, the updater handed to setSelections
Updated(current, itemId, quantity) ==
    IF ~IsFinite(quantity) \/ AtMostZero(quantity)
    THEN WithoutEntry(current, itemId)
    ELSE WithEntry(current, itemId, Floor(quantity))

\* The menus the page shows: the catalog with no rule or with the rule
\* lists of the mixed-combo inputs.
PageRuleLists == {<<>>} \cup MixRuleLists

\* lines 183-188: the page prices the new selection map; without pricing
\* rule the result is the zero result and the function is not called.
Render(current) ==
    /\ selections' = current
    /\ IF pricingRules = <<>>
       THEN /\ pc' = "done"
            /\ totalPrice' = 0
            /\ appliedCombos' = <<>>
            /\ appliedTimes' = <<>>
            /\ breakdown' = <<>>
       ELSE /\ pc' = "start"
            /\ UNCHANGED <<totalPrice, appliedCombos, appliedTimes, breakdown>>
    /\ UNCHANGED <<storage, lastCall, history, items, pricingRules,
                   categoryCounts, unitaryPrices, combos, next,
                   remainingCounts>>

\* line 132: the selection map starts empty; the menu is loaded.
InitPage ==
    /\ selections = <<>>
    /\ items = Catalog
    /\ pricingRules \in PageRuleLists
    /\ pc = IF pricingRules = <<>> THEN "done" ELSE "start"
    /\ categoryCounts = NoCounts
    /\ unitaryPrices = NoCounts
    /\ combos = <<>>
    /\ next = 1
    /\ remainingCounts = NoCounts
    /\ appliedCombos = <<>>
    /\ appliedTimes = <<>>
    /\ totalPrice = 0
    /\ breakdown = <<>>
    /\ history = <<>>
    /\ storage = EmptyStorage
    /\ lastCall = NoCall

toggleSelection ==
    /\ pc = "done"
    /\ \E itemId \in ItemIds : Render(Toggled(selections, itemId))

updateQuantity ==
    /\ pc = "done"
    /\ \E itemId \in ItemIds, quantity \in Quantities :
           Render(Updated(selections, itemId, quantity))

NextPage == Next \/ toggleSelection \/ updateQuantity

SpecPage == InitPage /\ [][NextPage]_vars

(***************************************************************************)
(* Saved menus in localStorage (storage functions, lines 54-118)           *)
(***************************************************************************)
\* Values of `menu-${Date.now()}-${Math.random()...}`: the clock and the
\* random number can repeat, so that two saves can draw the same id.
MenuIdValues == {"menu-1-a", "menu-2-b"}

\* Values of new Date().toISOString()
Timestamps == {"2025-01-01T00:00:00.000Z", "2025-01-02T00:00:00.000Z"}

MenuNames == {"lunch", "dinner"}

\* Item lists and rule lists handed to the storage functions.  The price of
\* a rule is a JavaScript number, finite or not.
SavedItemLists == {<<>>, <<Item("a", "FIT")>>}

NumberRule(price) == [type |-> "UNITARY", category |-> "FIT", price |-> price]

SavedRuleLists ==
    {<<NumberRule(Finite(2))>>, <<NumberRule([kind |-> "NaN", halves |-> 0])>>}

\* JSON.stringify followed by JSON.parse: a finite number and null are
\* kept, NaN and the infinities are written as null.
JsonNumber(n) ==
    IF n.kind \in {"finite", "null"} THEN n ELSE [kind |-> "null", halves |-> 0]

JsonRule(rule) == [rule EXCEPT !.price = JsonNumber(@)]

JsonMenu(menu) ==
    [menu EXCEPT !.pricingRules = [k \in 1..Len(@) |-> JsonRule(@[k])]]

\* JSON.stringify(saved), as the array that JSON.parse reads back from it
Stringify(saved) == [k \in 1..Len(saved) |-> JsonMenu(saved[k])]

\* lines 99-107 in the browser: data ? JSON.parse(data) : []
GetSavedMenus(st) == IF st.present THEN st.menus ELSE <<>>

\* localStorage.setItem(STORAGE_KEY, JSON.stringify(saved))
SetItem(saved) == storage' = [present |-> TRUE, menus |-> Stringify(saved)]

\* saved.findIndex((m) => m.id === id), 0 standing for -1
FindIndex(saved, id) ==
    IF \E k \in 1..Len(saved) : saved[k].id = id
    THEN CHOOSE k \in 1..Len(saved) :
             /\ saved[k].id = id
             /\ \A j \in 1..(k - 1) : saved[j].id # id
    ELSE 0

\* Variant: the entry is rebuilt as a new version with a new date.
ReplaceAsNewVersion(menu, name, its, rules) ==
    [id |-> menu.id, name |-> name,
     createdAt |-> "2025-01-02T00:00:00.000Z",
     items |-> its, pricingRules |-> rules]

\* lines 89-94: { ...saved[index], name, items, pricingRules }
ReplaceData(menu, name, its, rules) ==
    [menu EXCEPT !.name = name, !.items = its, !.pricingRules = rules]

\* Variant: only the first entry with the id is taken out.
FilteredFirst(saved, id) ==
    IF FindIndex(saved, id) = 0 THEN saved
    ELSE RemoveAt(saved, FindIndex(saved, id))

\* line 116: saved.filter((m) => m.id !== id)
Filtered(saved, id) == SelectSeq(saved, LAMBDA m : m.id # id)

\* lines 109-112: saved.find((m) => m.id === id) || null; the empty sequence
\* stands for null, a sequence of one menu for the menu found.
LoadMenuVersion(st, id) ==
    LET saved == GetSavedMenus(st)
    IN IF FindIndex(saved, id) = 0 THEN <<>>
       ELSE <<saved[FindIndex(saved, id)]>>

\* The variables of the pricing function, which the storage functions do not
\* touch.
pricingVars ==
    <<pc, selections, items, pricingRules, categoryCounts, unitaryPrices,
      combos, next, remainingCounts, appliedCombos, appliedTimes, totalPrice,
      breakdown, history>>

InitStorage ==
    /\ storage = EmptyStorage
    /\ lastCall = NoCall
    /\ pc = "done"
    /\ selections = <<>>
    /\ items = <<>>
    /\ pricingRules = <<>>
    /\ categoryCounts = NoCounts
    /\ unitaryPrices = NoCounts
    /\ combos = <<>>
    /\ next = 1
    /\ remainingCounts = NoCounts
    /\ appliedCombos = <<>>
    /\ appliedTimes = <<>>
    /\ totalPrice = 0
    /\ breakdown = <<>>
    /\ history = <<>>

\* lines 57-74
saveMenuVersion ==
    \E name \in MenuNames, its \in SavedItemLists, rules \in SavedRuleLists,
       id \in MenuIdValues, createdAt \in Timestamps :
        LET version == [id |-> id, name |-> name, createdAt |-> createdAt,
                        items |-> its, pricingRules |-> rules]
            saved == GetSavedMenus(storage)
        IN /\ Len(saved) < MaxSavedMenus
           /\ SetItem(Append(saved, version))
           /\ lastCall' = [op |-> "save", id |-> id, name |-> name,
                           items |-> its, pricingRules |-> rules,
                           threw |-> FALSE, returned |-> <<>>, removed |-> 0]
           /\ UNCHANGED pricingVars

\* lines 76-97
updateMenuVersion ==
    \E id \in MenuIdValues, name \in MenuNames, its \in SavedItemLists,
       rules \in SavedRuleLists :
        LET saved == GetSavedMenus(storage)
            index == FindIndex(saved, id)
        IN /\ IF index = 0
              THEN storage' = storage
              ELSE SetItem([saved EXCEPT
                               ![index] = ReplaceData(saved[index], name,
                                                      its, rules)])
           /\ lastCall' = [op |-> "update", id |-> id, name |-> name,
                           items |-> its, pricingRules |-> rules,
                           threw |-> (index = 0), returned |-> <<>>,
                           removed |-> 0]
           /\ UNCHANGED pricingVars

\* lines 109-112
loadMenuVersion ==
    \E id \in MenuIdValues :
        /\ lastCall' = [NoCall EXCEPT !.op = "load", !.id = id,
                                      !.returned = LoadMenuVersion(storage, id)]
        /\ UNCHANGED storage
        /\ UNCHANGED pricingVars

\* lines 114-118
deleteMenuVersion ==
    \E id \in MenuIdValues :
        LET saved == GetSavedMenus(storage)
            filtered == Filtered(saved, id)
        IN /\ SetItem(filtered)
           /\ lastCall' = [NoCall EXCEPT !.op = "delete", !.id = id,
                                         !.removed = Len(saved) - Len(filtered)]
           /\ UNCHANGED pricingVars

NextStorage ==
    saveMenuVersion \/ updateMenuVersion \/ loadMenuVersion \/ deleteMenuVersion

SpecStorage == InitStorage /\ [][NextStorage]_vars

\* The run computes what the function computes.
RunMatchesFunction ==
    pc = "done" => Result = CalculateBestPrice(selections, items, pricingRules)

(***************************************************************************)
(* Vocabulary of the properties                                            *)
(***************************************************************************)
Done == pc = "done"

NonNegativeQuantities == \A id \in DOMAIN selections : selections[id] >= 0

NonNegativePrices == \A k \in 1..Len(pricingRules) : pricingRules[k].price >= 0

\* Units of category cat that one application of the rule requires.
RECURSIVE RequiredByMix(_, _)
RequiredByMix(mixQuantities, cat) ==
    IF mixQuantities = <<>> THEN 0
    ELSE (IF Head(mixQuantities).category = cat
          THEN Head(mixQuantities).quantity ELSE 0)
         + RequiredByMix(Tail(mixQuantities), cat)

Required(rule, cat) ==
    IF rule.type = "QUANTITY_COMBO"
    THEN IF rule.category = cat THEN rule.quantity ELSE 0
    ELSE IF rule.type = "MIXED_COMBO" THEN RequiredByMix(rule.mixQuantities, cat)
         ELSE 0

\* A mixed combo whose requirement list names each category at most once.
NamesCategoriesOnce(rule) ==
    \A i, j \in 1..Len(rule.mixQuantities) :
        i < j => rule.mixQuantities[i].category # rule.mixQuantities[j].category

NoRepeatedMixCategory ==
    \A k \in 1..Len(pricingRules) : NamesCategoriesOnce(pricingRules[k])

\* Cost at unit price of the units one application of the rule replaces.
HypotheticalCost(rule, prices) ==
    prices["FIT"] * Required(rule, "FIT")
    + prices["LOWCARB"] * Required(rule, "LOWCARB")
    + prices["CALDOS"] * Required(rule, "CALDOS")

PerApplicationSavings(rule) == HypotheticalCost(rule, unitaryPrices) - rule.price

\* Cost of a number of units of every category at unit price.
PlainCost(counts, prices) ==
    prices["FIT"] * counts["FIT"] + prices["LOWCARB"] * counts["LOWCARB"]
    + prices["CALDOS"] * counts["CALDOS"]

TotalUnits(counts) == counts["FIT"] + counts["LOWCARB"] + counts["CALDOS"]

SetMin(S) == CHOOSE x \in S : \A y \in S : x <= y

\* How often the rule fits in the counts.
Fits(rule, counts, t) ==
    \A cat \in MenuCategory : t * Required(rule, cat) <= counts[cat]

\* Minimum cost of covering `counts` units with any number of applications
\* of the combo rules cs and unit-priced leftovers.
RECURSIVE MinCover(_, _, _)
MinCover(cs, counts, prices) ==
    IF cs = <<>> THEN PlainCost(counts, prices)
    ELSE LET rule == Head(cs)
             ts == {t \in 0..TotalUnits(counts) : Fits(rule, counts, t)}
         IN SetMin({t * rule.price
                    + MinCover(Tail(cs),
                               [cat \in MenuCategory |->
                                   counts[cat] - t * Required(rule, cat)],
                               prices) : t \in ts})

MinimumCost ==
    MinCover(SelectSeq(pricingRules, IsCombo), categoryCounts, unitaryPrices)

\* Position in pricingRules of the rule with the given id (ids are unique).
RuleIndex(id) == CHOOSE k \in 1..Len(pricingRules) : pricingRules[k].id = id

TotalWithout(k) ==
    CalculateBestPrice(selections, items, RemoveAt(pricingRules, k)).total

\* Position of the rule in the ranked list of combos.
RankOf(id) == CHOOSE k \in 1..Len(combos) : combos[k].rule.id = id

SharesCategory(r1, r2) ==
    \E cat \in MenuCategory : Required(r1, cat) > 0 /\ Required(r2, cat) > 0

\* Units of a category consumed by the applied combos.
RECURSIVE ConsumedFrom(_, _, _)
ConsumedFrom(applied, times, cat) ==
    IF applied = <<>> THEN 0
    ELSE Required(Head(applied).rule, cat) * Head(times)
         + ConsumedFrom(Tail(applied), Tail(times), cat)

ConsumedUnits(cat) == ConsumedFrom(appliedCombos, appliedTimes, cat)

UnitsAtUnitPrice(cat) ==
    IF remainingCounts[cat] > 0 THEN remainingCounts[cat] ELSE 0

(***************************************************************************)
(* C1                                                                      *)
(***************************************************************************)
\* C1 (as stated): for non-negative quantities and prices and positive combo
\* quantities, the returned total equals the minimum cost over all ways of
\* covering the selected units of each category with applications of the
\* combo rules plus unit-priced leftovers.  Stated here for the rule lists
\* whose mixed combos name each category once, where a covering is what the
\* loop builds; its failure there is a failure of the claim.
C1_TotalIsMinimumCost ==
    (Done /\ NonNegativeQuantities /\ NonNegativePrices /\ NoRepeatedMixCategory)
        => totalPrice = MinimumCost

\* C1 (amended): under the same conditions the returned total is the cost of
\* one covering, the one of the greedy pass: it is at least the minimum cost
\* and at most the cost of the selection at unit price.
C1_TotalBetweenMinimumAndPlain ==
    (Done /\ NonNegativeQuantities /\ NonNegativePrices /\ NoRepeatedMixCategory)
        => /\ MinimumCost <= totalPrice
           /\ totalPrice <= PlainCost(categoryCounts, unitaryPrices)

\* A call in which the greedy pass applied a combo and ended strictly above
\* the minimum cost.
C1_Witness ==
    /\ Done /\ NonNegativeQuantities /\ NoRepeatedMixCategory
    /\ appliedCombos # <<>>
    /\ MinimumCost < totalPrice
    /\ totalPrice < PlainCost(categoryCounts, unitaryPrices)

(***************************************************************************)
(* C2                                                                      *)
(***************************************************************************)
\* C2 (as stated): for every combo rule R with positive savings that the
\* call applied, the total computed without R is at least the total computed
\* with R.  Stated here for the rule lists whose mixed combos name each
\* category once; its failure there is a failure of the claim.
C2_RemovalNeverLowersTotal ==
    (Done /\ NoRepeatedMixCategory) =>
        \A k \in 1..Len(appliedCombos) :
            appliedCombos[k].savings > 0
                => TotalWithout(RuleIndex(appliedCombos[k].rule.id)) >= totalPrice

\* R, applied with positive savings, names each category once and no combo
\* ranked after it requires a category R requires.
C2_LastOnItsCategories(k) ==
    LET R == appliedCombos[k].rule
    IN /\ appliedCombos[k].savings > 0
       /\ NamesCategoriesOnce(R)
       /\ \A j \in 1..Len(combos) :
              j > RankOf(R.id) => ~SharesCategory(combos[j].rule, R)

\* C2 (amended): the total computed without R is at least the total computed
\* with R when R names each category at most once and no positive-savings
\* combo ranked after R requires a category that R requires.
C2_RemovalOfLastNeverLowersTotal ==
    Done =>
        \A k \in 1..Len(appliedCombos) :
            C2_LastOnItsCategories(k)
                => TotalWithout(RuleIndex(appliedCombos[k].rule.id)) >= totalPrice

\* A call that applied two combos, the first of them followed by a combo on
\* other categories only, and whose total rises when that first one is removed.
C2_Witness ==
    /\ Done
    /\ Len(appliedCombos) = 2
    /\ C2_LastOnItsCategories(1)
    /\ TotalWithout(RuleIndex(appliedCombos[1].rule.id)) > totalPrice

(***************************************************************************)
(* C3                                                                      *)
(***************************************************************************)
\* C3: at the end of the call, for every category, the units consumed by the
\* applied combos (required quantity times application count) plus the units
\* charged at unit price equal the quantity selected for the category.
\* Stated for non-negative selected quantities.
C3_CoverageOfSelectedUnits ==
    (Done /\ NonNegativeQuantities) =>
        \A cat \in MenuCategory :
            ConsumedUnits(cat) + UnitsAtUnitPrice(cat) = categoryCounts[cat]

(***************************************************************************)
(* C4                                                                      *)
(***************************************************************************)
\* C4: when all rule prices and all selected quantities are non-negative,
\* the returned total is at least 0.
C4_TotalNonNegative ==
    (Done /\ NonNegativeQuantities /\ NonNegativePrices) => totalPrice >= 0

\* A call with non-negative inputs that ends with a category whose remaining
\* count is negative, and charges nothing for it.
C4_Witness ==
    /\ Done /\ NonNegativeQuantities /\ NonNegativePrices
    /\ \E cat \in MenuCategory :
           remainingCounts[cat] < 0 /\ unitaryPrices[cat] > 0

(***************************************************************************)
(* C5                                                                      *)
(***************************************************************************)
SelectionsWithout(id) == [x \in DOMAIN selections \ {id} |-> selections[x]]

\* C5: an entry of the selection map with a zero or negative quantity for a
\* known item is excluded from the category counts: the call returns what it
\* returns for the selection map without that entry.
C5_NonPositiveEntriesExcluded ==
    Done =>
        \A id \in DOMAIN selections :
            (ItemKnown(items, id) /\ selections[id] <= 0)
                => Result = CalculateBestPrice(SelectionsWithout(id), items,
                                               pricingRules)

(***************************************************************************)
(* C6                                                                      *)
(***************************************************************************)
\* C6: the savings field of every entry of appliedCombos equals (the cost at
\* unit price of the units one application replaces, minus the combo price)
\* times the number of applications, and is strictly positive.
C6_SavingsOfAppliedCombos ==
    /\ Len(appliedTimes) = Len(appliedCombos)
    /\ \A k \in 1..Len(appliedCombos) :
           /\ appliedCombos[k].savings
                  = PerApplicationSavings(appliedCombos[k].rule) * appliedTimes[k]
           /\ appliedCombos[k].savings > 0

\* A returned list with a combo applied more than once and a mixed combo.
C6_Witness ==
    /\ Done
    /\ \E k \in 1..Len(appliedCombos) : appliedTimes[k] >= 2
    /\ \E k \in 1..Len(appliedCombos) :
           appliedCombos[k].rule.type = "MIXED_COMBO"

(***************************************************************************)
(* C7                                                                      *)
(***************************************************************************)
\* C7: combo rules with equal per-application savings are considered and
\* applied in the order of the input rule list (rule ids are the positions in
\* that list): they are in input order in the ranked list and in
\* appliedCombos.
C7_TiesInInputOrder ==
    /\ \A i, j \in 1..Len(combos) :
           (i < j /\ combos[i].savings = combos[j].savings)
               => RuleIndex(combos[i].rule.id) < RuleIndex(combos[j].rule.id)
    /\ \A i, j \in 1..Len(appliedCombos) :
           (i < j /\ PerApplicationSavings(appliedCombos[i].rule)
                       = PerApplicationSavings(appliedCombos[j].rule))
               => RuleIndex(appliedCombos[i].rule.id)
                      < RuleIndex(appliedCombos[j].rule.id)

\* Two quantity combos over different categories, equal savings, both applied.
C7_Witness ==
    /\ Done
    /\ Len(appliedCombos) = 2
    /\ appliedCombos[1].rule.type = "QUANTITY_COMBO"
    /\ appliedCombos[2].rule.type = "QUANTITY_COMBO"
    /\ appliedCombos[1].rule.category # appliedCombos[2].rule.category
    /\ PerApplicationSavings(appliedCombos[1].rule)
           = PerApplicationSavings(appliedCombos[2].rule)

(***************************************************************************)
(* C8                                                                      *)
(***************************************************************************)
\* C8: every entry of appliedCombos was recorded with an application count
\* that is a positive integer; a combo whose count is 0 is not recorded.
C8_AppliedCountsPositive ==
    /\ Len(appliedTimes) = Len(appliedCombos)
    /\ \A k \in 1..Len(appliedTimes) : appliedTimes[k] \in Nat \ {0}

\* A call in which one ranked combo was applied and another, whose count was
\* 0, was not recorded.
C8_Witness ==
    /\ Done
    /\ Len(combos) = 2
    /\ Len(appliedCombos) = 1
    /\ appliedCombos[1].rule.id = combos[2].rule.id

(***************************************************************************)
(* C9                                                                      *)
(***************************************************************************)
\* C9: a combo rule whose per-application savings are at most 0 is never
\* applied: it is in no entry of appliedCombos, and the call returns what it
\* returns for the rule list without that rule.
C9_NoSavingsNeverApplied ==
    Done =>
        \A k \in 1..Len(pricingRules) :
            (IsCombo(pricingRules[k]) /\ PerApplicationSavings(pricingRules[k]) <= 0)
                => /\ \A a \in 1..Len(appliedCombos) :
                          appliedCombos[a].rule.id # pricingRules[k].id
                   /\ Result = CalculateBestPrice(selections, items,
                                                  RemoveAt(pricingRules, k))

\* A call with a combo whose savings are at most 0 although the units left at
\* the end would allow an application of it.
C9_Witness ==
    /\ Done
    /\ \E k \in 1..Len(pricingRules) :
           /\ IsCombo(pricingRules[k])
           /\ PerApplicationSavings(pricingRules[k]) <= 0
           /\ Fits(pricingRules[k], remainingCounts, 1)
           /\ unitaryPrices[pricingRules[k].category] > 0

(***************************************************************************)
(* C10                                                                     *)
(***************************************************************************)
\* C10: the breakdown is empty exactly when appliedCombos is empty; otherwise
\* it is the header line followed by one line per applied combo, in the order
\* of appliedCombos.
C10_BreakdownShape ==
    Done =>
        /\ (breakdown = <<>>) <=> (appliedCombos = <<>>)
        /\ appliedCombos # <<>> =>
               /\ Len(breakdown) = 1 + Len(appliedCombos)
               /\ breakdown[1] = "Combos aplicados:"
               /\ \A k \in 1..Len(appliedCombos) :
                      <<breakdown[k + 1]>> = BreakdownLines(appliedCombos[k])

\* A returned breakdown of a header and two different combo lines.
C10_Witness ==
    /\ Done
    /\ Len(appliedCombos) = 2
    /\ Len(breakdown) = 3
    /\ breakdown[2] # breakdown[3]

(***************************************************************************)
(* C11                                                                     *)
(***************************************************************************)
KnownIds == {id \in DOMAIN selections : ItemKnown(items, id)}

SelectionsOfKnownItems == [id \in KnownIds |-> selections[id]]

\* C11: selection entries whose id is not in the item list contribute
\* nothing: the call returns what it returns for the selection map without
\* those entries.
C11_UnknownIdsIgnored ==
    Done => Result = CalculateBestPrice(SelectionsOfKnownItems, items,
                                        pricingRules)

\* A call with units selected for an unknown id and for a known item, and a
\* positive total.
C11_Witness ==
    /\ Done
    /\ \E id \in DOMAIN selections \ KnownIds : selections[id] > 0
    /\ \E id \in KnownIds : selections[id] > 0
    /\ totalPrice > 0

(***************************************************************************)
(* C12                                                                     *)
(***************************************************************************)
SameArguments(call) ==
    /\ call.selections = selections
    /\ call.items = items
    /\ call.pricingRules = pricingRules

\* C12: a call returns what every earlier call with the same three arguments
\* returned, whatever calls were made in between; the result is the value of
\* the function of the three arguments.
C12_SameArgumentsSameResult ==
    Done =>
        /\ \A k \in 1..Len(history) :
               SameArguments(history[k]) => history[k].result = Result
        /\ Result = CalculateBestPrice(selections, items, pricingRules)

\* A third call with the arguments of the first, after a second call with
\* other arguments and another result.
C12_Witness ==
    /\ Done
    /\ Len(history) = 2
    /\ SameArguments(history[1])
    /\ ~SameArguments(history[2])
    /\ history[2].result # Result
    /\ appliedCombos # <<>>

(***************************************************************************)
(* C13                                                                     *)
(***************************************************************************)
IsIncomplete(rule) ==
    \/ rule.type = "QUANTITY_COMBO" /\ rule.quantity = 0
    \/ rule.type = "MIXED_COMBO" /\ ~rule.hasMix

\* C13: every call on a structurally valid input, combos without quantity or
\* mix list included, runs to its end and returns (no block of the body has
\* a failing exit).
C13_Terminates == <>Done

\* A returned call whose rule list holds a combo without quantity or mix list
\* next to a combo that was applied.
C13_Witness ==
    /\ Done
    /\ \E k \in 1..Len(pricingRules) : IsIncomplete(pricingRules[k])
    /\ appliedCombos # <<>>

(***************************************************************************)
(* C14                                                                     *)
(***************************************************************************)
\* C14: no step of the call changes the selection map, the item list or the
\* rule list (the mixQuantities of the rules included), and the greedy pass
\* changes the working copy only, not the category counts.
C14_ArgumentsUnchanged ==
    [][/\ selections' = selections
       /\ items' = items
       /\ pricingRules' = pricingRules
       /\ pc = "apply" => categoryCounts' = categoryCounts]_vars

\* A returned call whose greedy pass consumed units of a mixed combo.
C14_Witness ==
    /\ Done
    /\ remainingCounts # categoryCounts
    /\ \E k \in 1..Len(appliedCombos) : appliedCombos[k].rule.type = "MIXED_COMBO"

(***************************************************************************)
(* C15                                                                     *)
(***************************************************************************)
\* C15: with an empty item list and an empty rule list the call returns
\* total 0, no applied combo and an empty breakdown, whatever is selected.
C15_EmptyItemsAndRules ==
    (Done /\ items = <<>> /\ pricingRules = <<>>)
        => Result = [total |-> 0, appliedCombos |-> <<>>, breakdown |-> <<>>]

\* A returned call with no item, no rule and a selection of positive
\* quantity.
C15_Witness ==
    /\ Done
    /\ items = <<>>
    /\ pricingRules = <<>>
    /\ \E id \in DOMAIN selections : selections[id] > 0

(***************************************************************************)
(* C16                                                                     *)
(***************************************************************************)
UnitRulePositions(cat) ==
    {k \in 1..Len(pricingRules) :
        pricingRules[k].type = "UNITARY" /\ pricingRules[k].category = cat}

HasUnitRule(cat) == UnitRulePositions(cat) # {}

\* The price of the unit rule of the category that comes last in the rule
\* list, 0 for a category without unit rule.
LastUnitPrice(cat) ==
    IF HasUnitRule(cat)
    THEN pricingRules[CHOOSE k \in UnitRulePositions(cat) :
                          \A j \in UnitRulePositions(cat) : j <= k].price
    ELSE 0

LastUnitPrices == [cat \in MenuCategory |-> LastUnitPrice(cat)]

\* What the applied combos add to the total.
RECURSIVE AppliedCost(_, _)
AppliedCost(applied, times) ==
    IF applied = <<>> THEN 0
    ELSE Head(applied).rule.price * Head(times)
         + AppliedCost(Tail(applied), Tail(times))

\* C16: the unit price of a category is the price of its last unit rule in
\* the rule list; the savings of the ranked combos are computed with it and
\* the units left after the combos are charged at it.
C16_LastUnitRuleWins ==
    /\ pc # "start" => unitaryPrices = LastUnitPrices
    /\ pc \notin {"start", "rank"} =>
           \A k \in 1..Len(combos) :
               combos[k].savings =
                   HypotheticalCost(combos[k].rule, LastUnitPrices)
                   - combos[k].rule.price
    /\ Done => totalPrice = AppliedCost(appliedCombos, appliedTimes)
                            + PlainCost([cat \in MenuCategory |->
                                            UnitsAtUnitPrice(cat)],
                                        LastUnitPrices)

\* Two unit rules of one category with different prices, a combo of that
\* category applied and units of it left over.
C16_Witness ==
    /\ Done
    /\ \E cat \in MenuCategory :
           /\ \E i, j \in UnitRulePositions(cat) :
                  pricingRules[i].price # pricingRules[j].price
           /\ \E k \in 1..Len(appliedCombos) :
                  Required(appliedCombos[k].rule, cat) > 0
           /\ remainingCounts[cat] > 0
    /\ totalPrice > AppliedCost(appliedCombos, appliedTimes)

(***************************************************************************)
(* C17                                                                     *)
(***************************************************************************)
\* Cost at unit price, counting the categories that have a unit rule only.
CostOverPricedCategories(counts) ==
    (IF HasUnitRule("FIT") THEN unitaryPrices["FIT"] * counts["FIT"] ELSE 0)
    + (IF HasUnitRule("LOWCARB")
       THEN unitaryPrices["LOWCARB"] * counts["LOWCARB"] ELSE 0)
    + (IF HasUnitRule("CALDOS")
       THEN unitaryPrices["CALDOS"] * counts["CALDOS"] ELSE 0)

\* C17: a category without unit rule has unit price 0: it adds nothing to
\* the cost a combo is compared with, and its units left after the combos
\* add nothing to the total; the call returns all the same.
C17_NoUnitRuleIsPriceZero ==
    /\ pc # "start" =>
           \A cat \in MenuCategory : ~HasUnitRule(cat) => unitaryPrices[cat] = 0
    /\ pc \notin {"start", "rank"} =>
           \A k \in 1..Len(combos) :
               combos[k].savings =
                   CostOverPricedCategories(
                       [cat \in MenuCategory |-> Required(combos[k].rule, cat)])
                   - combos[k].rule.price
    /\ Done => totalPrice = AppliedCost(appliedCombos, appliedTimes)
                            + CostOverPricedCategories(
                                  [cat \in MenuCategory |-> UnitsAtUnitPrice(cat)])

\* A returned call with units left of a category without unit rule, after a
\* combo that requires this category was applied.
C17_Witness ==
    /\ Done
    /\ \E cat \in MenuCategory :
           /\ ~HasUnitRule(cat)
           /\ remainingCounts[cat] > 0
           /\ \E k \in 1..Len(appliedCombos) :
                  /\ Required(appliedCombos[k].rule, cat) > 0
                  /\ appliedCombos[k].rule.price > 0
    /\ totalPrice > 0

(***************************************************************************)
(* C18                                                                     *)
(***************************************************************************)
\* The loop is at a combo of the given type.
AtCombo(type) ==
    /\ pc = "apply"
    /\ next <= Len(combos)
    /\ combos[next].rule.type = type

\* The step of the loop over a quantity combo.
QuantityComboStep ==
    LET rule == combos[next].rule
        count == remainingCounts[rule.category] \div rule.quantity
    IN IF count > 0
       THEN /\ totalPrice' = totalPrice + rule.price * count
            /\ remainingCounts' =
                   [remainingCounts EXCEPT
                       ![rule.category] = @ - rule.quantity * count]
            /\ appliedTimes' = Append(appliedTimes, count)
            /\ Len(appliedCombos') = Len(appliedCombos) + 1
            /\ appliedCombos'[Len(appliedCombos')].rule = rule
       ELSE UNCHANGED <<totalPrice, remainingCounts, appliedTimes,
                        appliedCombos>>

\* The step after the loop: what is left is charged at unit price.
RemainderStep ==
    totalPrice' = totalPrice
                  + PlainCost([cat \in MenuCategory |-> UnitsAtUnitPrice(cat)],
                              unitaryPrices)

IsExample ==
    /\ items = <<Item("a", "FIT")>>
    /\ DOMAIN selections = {"a"}
    /\ selections["a"] = 13
    /\ pricingRules = WithIds(<<UnitaryRule("FIT", 10),
                                QuantityCombo("FIT", 10, 90)>>)

\* C18: a ranked quantity combo is applied floor(remaining / quantity)
\* times; a positive count adds price * count to the total and takes
\* quantity * count units off its category only; the units left after the
\* loop are charged at unit price.  13 units with a combo of 10 for 90 and
\* unit price 10 give one application and the total 120.
C18_QuantityComboStep ==
    /\ [][/\ AtCombo("QUANTITY_COMBO") => QuantityComboStep
          /\ (pc = "apply" /\ pc' = "breakdown") => RemainderStep]_vars
    /\ [](Done /\ IsExample =>
              /\ totalPrice = 120
              /\ appliedTimes = <<1>>
              /\ remainingCounts["FIT"] = 3)

\* The example has returned 120.
C18_Witness ==
    /\ Done
    /\ IsExample
    /\ totalPrice = 120
    /\ Len(appliedCombos) = 1

(***************************************************************************)
(* C19                                                                     *)
(***************************************************************************)
\* The step of the loop over a mixed combo.
MixedComboStep ==
    LET rule == combos[next].rule
        mixes == rule.mixQuantities
        count == SetMin({remainingCounts[mixes[k].category]
                             \div mixes[k].quantity : k \in 1..Len(mixes)})
    IN IF \E k \in 1..Len(mixes) :
              remainingCounts[mixes[k].category] < mixes[k].quantity
       THEN UNCHANGED <<totalPrice, remainingCounts, appliedTimes,
                        appliedCombos>>
       ELSE /\ totalPrice' = totalPrice + rule.price * count
            /\ remainingCounts' =
                   [cat \in MenuCategory |->
                       remainingCounts[cat] - Required(rule, cat) * count]
            /\ appliedTimes' = Append(appliedTimes, count)
            /\ Len(appliedCombos') = Len(appliedCombos) + 1
            /\ appliedCombos'[Len(appliedCombos')].rule = rule

\* C19: a ranked mixed combo is applied as often as the minimum over its
\* requirements of floor(remaining / quantity); when a requirement has fewer
\* units left than its quantity nothing is recorded and nothing changes;
\* otherwise price * count is added to the total and every requirement takes
\* quantity * count units off its category.
C19_MixedComboStep ==
    [][AtCombo("MIXED_COMBO") => MixedComboStep]_vars

\* A mixed combo over two categories, one requirement of two units or more,
\* was applied with the count that its scarcer requirement allows.
C19_Witness ==
    /\ Done
    /\ \E k \in 1..Len(appliedCombos) :
           LET mixes == appliedCombos[k].rule.mixQuantities
           IN /\ appliedCombos[k].rule.type = "MIXED_COMBO"
              /\ Len(mixes) = 2
              /\ mixes[1].category # mixes[2].category
              /\ mixes[2].quantity >= 2
              /\ categoryCounts[mixes[1].category] \div mixes[1].quantity
                     > appliedTimes[k]

(***************************************************************************)
(* C20                                                                     *)
(***************************************************************************)
IsPrefix(s, t) == Len(s) <= Len(t) /\ SubSeq(t, 1, Len(s)) = s

\* One iteration of the loop: it moves to the next combo, keeps what was
\* recorded, records the combo it is at or nothing, and returns no unit.
ForwardStep ==
    /\ next' = next + 1
    /\ combos' = combos
    /\ IsPrefix(appliedCombos, appliedCombos')
    /\ IsPrefix(appliedTimes, appliedTimes')
    /\ Len(appliedCombos') <= Len(appliedCombos) + 1
    /\ Len(appliedCombos') = Len(appliedCombos) + 1 =>
           appliedCombos'[Len(appliedCombos')].rule = combos[next].rule
    /\ \A cat \in MenuCategory : remainingCounts'[cat] <= remainingCounts[cat]

\* C20: the loop is one forward pass over the ranked combos: every combo is
\* evaluated once, in order, the loop ends after the last one, a rule is
\* recorded at most once, and what was recorded and consumed is never undone
\* by a later iteration.
C20_SingleForwardPass ==
    /\ [][/\ (pc = "apply" /\ pc' = "apply") => ForwardStep
          /\ (pc = "apply" /\ pc' # "apply") =>
                 /\ next = Len(combos) + 1
                 /\ UNCHANGED <<appliedCombos, appliedTimes, remainingCounts>>
          /\ pc \in {"breakdown", "done"} =>
                 UNCHANGED <<appliedCombos, appliedTimes, remainingCounts>>]_vars
    /\ [](/\ \A i, j \in 1..Len(appliedCombos) :
                 i # j => appliedCombos[i].rule.id # appliedCombos[j].rule.id
          /\ pc = "apply" => next \in 1..(Len(combos) + 1)
          /\ \A i, j \in 1..Len(combos) :
                 i # j => combos[i].rule.id # combos[j].rule.id)

\* Two combos were ranked and both were applied, one after the other.
C20_Witness ==
    /\ Done
    /\ Len(combos) = 2
    /\ Len(appliedCombos) = 2
    /\ next = 3

(***************************************************************************)
(* C21                                                                     *)
(***************************************************************************)
\* C21: the entries of appliedCombos are in the order of their application,
\* and the savings of one application never increase along the list.
C21_AppliedInSavingsOrder ==
    /\ \A i, j \in 1..Len(appliedCombos) :
           i < j => PerApplicationSavings(appliedCombos[i].rule)
                        >= PerApplicationSavings(appliedCombos[j].rule)
    /\ \A i, j \in 1..Len(appliedCombos) :
           i < j => RankOf(appliedCombos[i].rule.id)
                        < RankOf(appliedCombos[j].rule.id)
    /\ pc = "apply" =>
           \A i \in 1..Len(appliedCombos) : RankOf(appliedCombos[i].rule.id) < next

\* Two combos were applied, the one that saves more first although it comes
\* later in the rule list.
C21_Witness ==
    /\ Done
    /\ Len(appliedCombos) = 2
    /\ PerApplicationSavings(appliedCombos[1].rule)
           > PerApplicationSavings(appliedCombos[2].rule)
    /\ RuleIndex(appliedCombos[1].rule.id) > RuleIndex(appliedCombos[2].rule.id)

(***************************************************************************)
(* C22                                                                     *)
(***************************************************************************)
NoComboRule == \A k \in 1..Len(pricingRules) : ~IsCombo(pricingRules[k])

PositiveComboQuantities ==
    \A k \in 1..Len(pricingRules) :
        LET rule == pricingRules[k]
        IN /\ rule.type = "QUANTITY_COMBO" => rule.quantity > 0
           /\ rule.type = "MIXED_COMBO" =>
                  /\ rule.hasMix
                  /\ \A i \in 1..Len(rule.mixQuantities) :
                         rule.mixQuantities[i].quantity > 0

\* C23: with non-negative selected quantities and positive combo quantities
\* the remaining count of every category is at least 0 after every step of
\* the greedy pass, a mixed combo naming a category twice included.
C23_RemainingNeverNegative ==
    (NonNegativeQuantities /\ PositiveComboQuantities) =>
        \A cat \in MenuCategory : remainingCounts[cat] >= 0

(***************************************************************************)
(* C24                                                                     *)
(***************************************************************************)
RECURSIVE SumOfSavings(_)
SumOfSavings(applied) ==
    IF applied = <<>> THEN 0
    ELSE Head(applied).savings + SumOfSavings(Tail(applied))

\* C24: for non-negative selected quantities the returned total plus the
\* savings of the applied combos is the cost of the selection at unit price,
\* so that the total never exceeds that cost.
C24_TotalPlusSavingsIsPlainCost ==
    (Done /\ NonNegativeQuantities) =>
        /\ totalPrice + SumOfSavings(appliedCombos)
               = PlainCost(categoryCounts, unitaryPrices)
        /\ totalPrice <= PlainCost(categoryCounts, unitaryPrices)

(***************************************************************************)
(* C25                                                                     *)
(***************************************************************************)
\* The rule can still be applied once to the remaining counts.
StillApplicable(rule) ==
    IF rule.type = "QUANTITY_COMBO"
    THEN remainingCounts[rule.category] >= rule.quantity
    ELSE \A i \in 1..Len(rule.mixQuantities) :
             remainingCounts[rule.mixQuantities[i].category]
                 >= rule.mixQuantities[i].quantity

\* C25: at the return (non-negative selected quantities, positive combo
\* quantities) no combo rule with positive savings can still be applied to
\* the units charged at unit price: a quantity combo finds fewer units of its
\* category than its quantity, a mixed combo finds one requirement short.
C25_NoApplicableComboLeft ==
    (Done /\ NonNegativeQuantities /\ PositiveComboQuantities) =>
        \A k \in 1..Len(pricingRules) :
            (IsCombo(pricingRules[k])
             /\ PerApplicationSavings(pricingRules[k]) > 0)
                => ~StillApplicable(pricingRules[k])

\* A combo with positive savings was applied and units of its category are
\* left over, fewer than it requires.
C25_Witness ==
    /\ Done
    /\ NonNegativeQuantities
    /\ PositiveComboQuantities
    /\ \E k \in 1..Len(appliedCombos) :
           /\ appliedTimes[k] >= 1
           /\ appliedCombos[k].rule.quantity >= 2
           /\ \E cat \in MenuCategory :
                  /\ Required(appliedCombos[k].rule, cat) > 0
                  /\ remainingCounts[cat] > 0

(***************************************************************************)
(* C26                                                                     *)
(***************************************************************************)
\* C26: the copy of the function in src/lib/utils.ts returns, for the
\* arguments of the call, the total, the applied combos and the breakdown
\* that the call of the other copy returns.
C26_CopiesAgree ==
    Done => Result = LibCalculateBestPrice(selections, items, pricingRules)

\* A call that applied a combo and charged units at unit price, on a
\* selection whose base price is not 0.
C26_Witness ==
    /\ Done
    /\ appliedCombos # <<>>
    /\ totalPrice > AppliedCost(appliedCombos, appliedTimes)
    /\ BasePrice(categoryCounts, unitaryPrices) > totalPrice

(***************************************************************************)
(* C27                                                                     *)
(***************************************************************************)
\* C27: on the menu page, after any sequence of toggleSelection and
\* updateQuantity calls from the empty selection map, whatever quantity is
\* handed over, every entry of the selection map is an integer of at least 1.
C27_EntriesAtLeastOne ==
    \A id \in DOMAIN selections : selections[id] \in Nat /\ selections[id] >= 1

(***************************************************************************)
(* C28                                                                     *)
(***************************************************************************)
HasId(saved, id) == \E k \in 1..Len(saved) : saved[k].id = id

\* The stored rule list is the given one, a price that JSON cannot write
\* being stored as null.
StoredAsGiven(stored, given) ==
    /\ Len(stored) = Len(given)
    /\ \A k \in 1..Len(given) :
           /\ stored[k].type = given[k].type
           /\ stored[k].category = given[k].category
           /\ stored[k].price =
                  IF given[k].price.kind = "finite" THEN given[k].price
                  ELSE [kind |-> "null", halves |-> 0]

\* What a call of updateMenuVersion, recorded in lastCall', does to the list.
UpdateStep ==
    LET before == GetSavedMenus(storage)
        after == GetSavedMenus(storage')
        id == lastCall'.id
    IN IF ~HasId(before, id)
       THEN /\ lastCall'.threw
            /\ storage' = storage
       ELSE /\ ~lastCall'.threw
            /\ Len(after) = Len(before)
            /\ \E i \in 1..Len(before) :
                   /\ before[i].id = id
                   /\ after[i].id = before[i].id
                   /\ after[i].createdAt = before[i].createdAt
                   /\ after[i].name = lastCall'.name
                   /\ after[i].items = lastCall'.items
                   /\ StoredAsGiven(after[i].pricingRules, lastCall'.pricingRules)
                   /\ \A k \in 1..Len(before) : k # i => after[k] = before[k]

\* C28: updateMenuVersion on an id that no saved menu has throws and leaves
\* the stored list as it is; on a known id it replaces the name, the items
\* and the pricing rules of that entry, keeps its id and createdAt, and
\* leaves the number, the order and the contents of the other menus.
C28_UpdateReplacesDataOnly ==
    [][lastCall'.op = "update" => UpdateStep]_vars

\* The second of two saved menus was updated: it has a new name and a rule
\* list whose price is stored as null, and its date differs from the date of
\* the variant.
C28_Witness ==
    /\ lastCall.op = "update"
    /\ ~lastCall.threw
    /\ Len(storage.menus) = 2
    /\ storage.menus[1].id # lastCall.id
    /\ storage.menus[2].id = lastCall.id
    /\ storage.menus[2].name = lastCall.name
    /\ storage.menus[2].name # storage.menus[1].name
    /\ storage.menus[2].createdAt = "2025-01-01T00:00:00.000Z"
    /\ storage.menus[2].pricingRules[1].price.kind = "null"

(***************************************************************************)
(* C29                                                                     *)
(***************************************************************************)
\* The list without the menus of the given id, in the same order.
RECURSIVE Others(_, _)
Others(saved, id) ==
    IF saved = <<>> THEN <<>>
    ELSE IF Head(saved).id = id THEN Others(Tail(saved), id)
         ELSE <<Head(saved)>> \o Others(Tail(saved), id)

\* What a call of deleteMenuVersion, recorded in lastCall', does to the list.
DeleteStep ==
    LET before == GetSavedMenus(storage)
        after == GetSavedMenus(storage')
        id == lastCall'.id
    IN /\ ~HasId(after, id)
       /\ LoadMenuVersion(storage', id) = <<>>
       /\ after = Others(before, id)
       /\ (lastCall.op = "delete" /\ lastCall.id = id) => storage' = storage

\* C29: whatever was saved, updated and deleted before, deleteMenuVersion
\* leaves no saved menu with the id (loadMenuVersion returns null), keeps
\* the other menus and their order, and changes nothing when it is called a
\* second time.
C29_DeleteRemovesThatIdOnly ==
    [][lastCall'.op = "delete" => DeleteStep]_vars

\* A delete took one of two saved menus off the list and the other stays.
C29_Witness ==
    /\ lastCall.op = "delete"
    /\ lastCall.removed = 1
    /\ Len(storage.menus) = 1
    /\ storage.menus[1].id # lastCall.id

====
